---- MODULE Spec2Model ----
(***************************************************************************)
(* The shell-server session of tunshell-client                             *)
(* (src/tunshell-client/src/shell/server/mod.rs): ShellServer::run drives  *)
(* wait_for_key, start_shell, steam_shell_io and the final linger over one *)
(* peer stream.  The peer stream, the timers and the shell provider are    *)
(* the environment.                                                        *)
(***************************************************************************)
EXTENDS Integers, Sequences, FiniteSets, TLC

VARIABLES
    key,        \* the expected ShellKey handed to run
    platform,   \* "desktop": the pty module is compiled in; "mobile": it is not
    pc,         \* where run is: wait_for_key, write_key_verdict, start_shell,
                \* steam_shell_io, linger, returned
    result,     \* what run returned: "none" (still running), "Ok", "Err"
    cause,      \* the error run returned, "" when none
    elapsed,    \* ms on the delay_for timer of the current stage
    script,     \* the frames the peer has put on the stream, in order
    pos,        \* how many frames of script stream.next() has yielded
    eof,        \* the peer stream has ended after script
    received,   \* what stream.next() yielded to this run, in order
    out,        \* the server messages written to the stream, in order
    shell,      \* the shell provider held by the session
    built,      \* the provider constructions attempted by start_shell, in order
    run_no,     \* 1 for the first run over the script, 2 for the rerun
    prev        \* the outcome of the first run, kept for the rerun

vars == <<key, platform, pc, result, cause, elapsed, script, pos, eof,
          received, out, shell, built, run_no, prev>>

----------------------------------------------------------------------------
(* Bounds of the model *)

\* the longest peer script
MaxScript == 5

\* the longest peer script a second run is made over
MaxRerunScript == 4

\* the ticks by which the write of the key verdict is followed past the deadline
MaxOverrunTicks == 1

(* Program constants *)

AuthTimeoutMs == 3000
ShellTimeoutMs == 3000
LingerMs == 500
BuffSize == 1024

\* the clock advances in steps of the shortest delay of the program
TickMs == LingerMs

----------------------------------------------------------------------------
(* Messages *)

Keys == {"CorrectKey", "Invalid"}
Terms == {"TERM"}
StartSizes == {<<50, 50>>}
ResizeSizes == {<<100, 80>>}

\* stdin payloads: a command that prints, and two that end the shell
EchoCmd == "echo"
ExitCmds == {"exit", "exit 3"}
Payloads == {EchoCmd} \cup ExitCmds

KeyMsg(k) == [type |-> "Key", key |-> k]
StartShellMsg(t, s) == [type |-> "StartShell", term |-> t, size |-> s]
StdinMsg(p) == [type |-> "Stdin", payload |-> p]
ResizeMsg(s) == [type |-> "Resize", size |-> s]
ErrorMsg(t) == [type |-> "Error", text |-> t]

ShellClientMessage ==
    {KeyMsg(k) : k \in Keys}
    \cup {StartShellMsg(t, s) : t \in Terms, s \in StartSizes}
    \cup {StdinMsg(p) : p \in Payloads}
    \cup {ResizeMsg(s) : s \in ResizeSizes}
    \cup {ErrorMsg("some error occurred")}

\* bytes on the stream that do not decode to a message: stream.next() yields Some(Err)
InvalidFrame == [type |-> "Invalid"]
\* stream.next() yields None
StreamEnd == [type |-> "None"]

Frames == ShellClientMessage \cup {InvalidFrame}

KeyAccepted == [type |-> "KeyAccepted"]
KeyRejected == [type |-> "KeyRejected"]
\* the bytes of a Stdout message are the slice [off, off + len) of the provider's output
Stdout(off, len) == [type |-> "Stdout", off |-> off, len |-> len]
Exited(code) == [type |-> "Exited", code |-> code]

----------------------------------------------------------------------------
(* The shell provider (the Shell trait: read, write, resize, exit_code).      *)
(* The shell prints a prompt when it starts and then runs the commands        *)
(* written to it in order: each echo command prints EchoOutputLen bytes, an   *)
(* exit command ends it with the command's status, and what is written after  *)
(* an exit command is not run.  Printing and exiting take time: ShellProduce  *)
(* and ShellExit are steps of the shell process, not of the session.          *)

\* the bytes of the prompt the shell prints when it starts
PromptLen == 2

\* the bytes one echo command prints: two of them exceed one read buffer
EchoOutputLen == 700

Min(a, b) == IF a < b THEN a ELSE b

NoShell ==
    [kind |-> "none", term |-> "", size |-> <<0, 0>>, input |-> <<>>,
     produced |-> 0, consumed |-> 0, exited |-> FALSE, code |-> 0, drained |-> FALSE]

ShellNew(kind, term, size) ==
    [NoShell EXCEPT !.kind = kind, !.term = term, !.size = size]

WriteOp(p) == [op |-> "write", payload |-> p]
ResizeOp(s) == [op |-> "resize", size |-> s]

IsExitOp(o) == o.op = "write" /\ o.payload \in ExitCmds
IsEchoOp(o) == o.op = "write" /\ o.payload = EchoCmd

\* the index of the first exit command written to the shell, 0 when there is none
FirstExit(input) ==
    LET S == {i \in 1..Len(input) : IsExitOp(input[i])}
    IN IF S = {} THEN 0 ELSE CHOOSE i \in S : \A j \in S : i <= j

\* the commands the shell runs: those written before the first exit command
ShellRuns(input) ==
    IF FirstExit(input) = 0 THEN input ELSE SubSeq(input, 1, FirstExit(input) - 1)

\* the bytes the shell prints in all for the input written so far
ShellTotal(input) ==
    PromptLen
    + EchoOutputLen * Cardinality({i \in 1..Len(ShellRuns(input)) : IsEchoOp(input[i])})

ExitCodeOf(p) == IF p = "exit 3" THEN 3 ELSE 0

\* the bytes a read would return now
ShellAvail(sh) == sh.produced - sh.consumed

ShellWrite(sh, p) == [sh EXCEPT !.input = Append(@, WriteOp(p))]
ShellResize(sh, s) == [sh EXCEPT !.input = Append(@, ResizeOp(s)), !.size = s]

----------------------------------------------------------------------------
(* The peer stream *)

\* stream.next() yields f: the next frame of the script, a frame the peer sends
\* now, or None once the peer has ended the stream
StreamNext(f) ==
    /\ \/ /\ pos < Len(script)
          /\ f = script[pos + 1]
          /\ pos' = pos + 1
          /\ UNCHANGED <<script, eof>>
       \/ /\ pos = Len(script)
          /\ ~eof
          /\ Len(script) < (IF run_no = 1 THEN MaxScript ELSE MaxRerunScript)
          /\ f \in Frames
          /\ script' = Append(script, f)
          /\ pos' = pos + 1
          /\ UNCHANGED eof
       \/ /\ pos = Len(script)
          /\ f = StreamEnd
          /\ eof' = TRUE
          /\ UNCHANGED <<script, pos>>
    /\ received' = Append(received, f)

\* stream.write(msg): ok is whether the transport took the message
StreamWrite(msg, ok) == out' = IF ok THEN Append(out, msg) ELSE out

----------------------------------------------------------------------------
(* ShellServer::run *)

Init ==
    /\ key \in Keys
    /\ platform \in {"desktop", "mobile"}
    /\ pc = "wait_for_key"
    /\ result = "none"
    /\ cause = ""
    /\ elapsed = 0
    /\ script = <<>>
    /\ pos = 0
    /\ eof = FALSE
    /\ received = <<>>
    /\ out = <<>>
    /\ shell = NoShell
    /\ built = <<>>
    /\ run_no = 1
    /\ prev = [result |-> "none", out |-> <<>>, kind |-> "none", cause |-> ""]

\* run returns res; an Err carries the cause c
Return(res, c) ==
    /\ pc' = "returned"
    /\ result' = res
    /\ cause' = c
    /\ UNCHANGED elapsed

\* mutant: the next stage goes on with the timer of the stage before
Enter_KeepsClock(stage) ==
    /\ pc' = stage
    /\ UNCHANGED <<elapsed, result, cause>>

\* a stage of run ends and the next one starts its own timer
Enter(stage) ==
    /\ pc' = stage
    /\ elapsed' = 0
    /\ UNCHANGED <<result, cause>>

\* the deadline of the delay_for the stage waits on
Deadline(stage) ==
    CASE stage = "wait_for_key" -> AuthTimeoutMs
      [] stage = "start_shell" -> ShellTimeoutMs
      [] stage = "linger" -> LingerMs
      [] OTHER -> 0

\* time passes while run waits on a timer, or on the write of the key verdict,
\* which no timer is raced against
Tick ==
    /\ \/ /\ pc \in {"wait_for_key", "start_shell", "linger"}
          /\ elapsed < Deadline(pc)
       \/ /\ pc = "write_key_verdict"
          /\ elapsed < AuthTimeoutMs + MaxOverrunTicks * TickMs
    /\ elapsed' = elapsed + TickMs
    /\ UNCHANGED <<key, platform, pc, result, cause, script, pos, eof,
                   received, out, shell, built, run_no, prev>>

(* wait_for_key *)

\* mutant: every key is taken for the expected one
KeyMatches_Always(received_key, k) == TRUE

KeyMatches(received_key, k) == received_key = k

\* the select of wait_for_key resolves on stream.next(): a Key leaves the select
\* with received_key, anything else returns
\* mutant: the end of the stream is reported as the deadline is
OnKeyStreamEnd_TimesOut == Return("Err", "timed out while waiting for key")

\* the None arm of the select of wait_for_key
OnKeyStreamEnd == Return("Err", "client did not sent key")

WaitForKeyMessage ==
    /\ pc = "wait_for_key"
    /\ \E f \in Frames \cup {StreamEnd} :
        /\ StreamNext(f)
        /\ CASE f.type = "Key" ->
                  /\ pc' = "write_key_verdict"
                  /\ UNCHANGED <<result, cause, elapsed>>
             [] f.type = "Invalid" ->
                  Return("Err", "received invalid message from client")
             [] f.type = "None" ->
                  OnKeyStreamEnd
             [] OTHER ->
                  Return("Err", "received unexpected message from client")
    /\ UNCHANGED <<key, platform, out, shell, built, run_no, prev>>

\* the comparison of received_key with the expected key, and the write of the
\* verdict, which is awaited after the select and outside its deadline
WriteKeyVerdict ==
    /\ pc = "write_key_verdict"
    /\ \E ok \in BOOLEAN :
          IF KeyMatches(received[1].key, key)
          THEN /\ StreamWrite(KeyAccepted, ok)
               /\ IF ok THEN Enter("start_shell")
                        ELSE Return("Err", "stream write failed")
          ELSE /\ StreamWrite(KeyRejected, ok)
               /\ IF ok THEN Return("Err", "client key rejected")
                        ELSE Return("Err", "stream write failed")
    /\ UNCHANGED <<key, platform, script, pos, eof, received, shell, built,
                   run_no, prev>>

\* mutant: the deadline is handled as a rejected key
WaitForKeyTimeout_Rejects ==
    /\ pc = "wait_for_key"
    /\ elapsed >= AuthTimeoutMs
    /\ StreamWrite(KeyRejected, TRUE)
    /\ Return("Err", "client key rejected")
    /\ UNCHANGED <<key, platform, script, pos, eof, received, shell, built,
                   run_no, prev>>

\* mutant: the deadline starts the wait for the key again
WaitForKeyTimeout_Retries ==
    /\ pc = "wait_for_key"
    /\ elapsed >= AuthTimeoutMs
    /\ Enter("wait_for_key")
    /\ UNCHANGED <<result, cause>>
    /\ UNCHANGED <<key, platform, script, pos, eof, received, out, shell, built,
                   run_no, prev>>

WaitForKeyTimeout ==
    /\ pc = "wait_for_key"
    /\ elapsed >= AuthTimeoutMs
    /\ Return("Err", "timed out while waiting for key")
    /\ UNCHANGED <<key, platform, script, pos, eof, received, out, shell, built,
                   run_no, prev>>

(* start_shell *)

\* the pty module is compiled in on every target but ios and android
PtyCompiled == platform = "desktop"

\* the construction of one provider, as start_shell saw it
Built(kind, okay, term, size) ==
    [kind |-> kind, ok |-> okay, term |-> term, size |-> size]

\* mutant: the fallback shell is built with a size of its own
FallbackShellNew_OwnSize(request) == ShellNew("fallback", request.term, <<80, 24>>)

\* FallbackShell::new(request.term, request.size)
FallbackShellNew(request) == ShellNew("fallback", request.term, request.size)

\* PtyShell::new(request.term, None, request.size), when it succeeds
PtyShellNew(request) == ShellNew("pty", request.term, request.size)

StartShellMessage ==
    /\ pc = "start_shell"
    /\ \E f \in Frames \cup {StreamEnd} :
        /\ StreamNext(f)
        /\ CASE f.type = "StartShell" ->
                  /\ \/ /\ PtyCompiled
                        /\ shell' = PtyShellNew(f)
                        /\ built' = <<Built("pty", TRUE, shell'.term, shell'.size)>>
                     \/ /\ PtyCompiled
                        /\ shell' = FallbackShellNew(f)
                        /\ built' = <<Built("pty", FALSE, f.term, f.size),
                                      Built("fallback", TRUE, shell'.term, shell'.size)>>
                     \/ /\ ~PtyCompiled
                        /\ shell' = FallbackShellNew(f)
                        /\ built' = <<Built("fallback", TRUE, shell'.term, shell'.size)>>
                  /\ Enter("steam_shell_io")
             [] f.type = "Invalid" ->
                  /\ Return("Err", "received invalid message from client")
                  /\ UNCHANGED <<shell, built>>
             [] f.type = "None" ->
                  /\ Return("Err", "client did not send start shell message")
                  /\ UNCHANGED <<shell, built>>
             [] OTHER ->
                  /\ Return("Err", "received unexpected message from client")
                  /\ UNCHANGED <<shell, built>>
    /\ UNCHANGED <<key, platform, out, run_no, prev>>

\* mutant: the deadline starts the wait again
StartShellTimeout_Retries ==
    /\ pc = "start_shell"
    /\ elapsed >= ShellTimeoutMs
    /\ Enter("start_shell")
    /\ UNCHANGED <<key, platform, script, pos, eof, received, out, shell, built,
                   run_no, prev>>

StartShellTimeout ==
    /\ pc = "start_shell"
    /\ elapsed >= ShellTimeoutMs
    /\ Return("Err", "timed out while waiting for shell request")
    /\ UNCHANGED <<key, platform, script, pos, eof, received, out, shell, built,
                   run_no, prev>>

(* steam_shell_io *)

\* mutant: when the loop is left, run waits for a shell request again
Break_Renegotiates == Enter("start_shell")

\* the loop of steam_shell_io is left by break: run goes on to the linger
Break == Enter("linger")

\* mutant: every arm of the select leaves the loop
Continue_Breaks == Break

\* an arm of the select ends without break or return: the loop races again
Continue == UNCHANGED <<pc, result, cause, elapsed>>

\* mutant: the failure of a call is logged and the loop goes on
Fail_LogsOnly(c) ==
    /\ cause' = c
    /\ UNCHANGED <<pc, result, elapsed>>

\* the `?` after a call of the loop: the first Err is what run returns
Fail(c) == Return("Err", c)

\* mutant: a Resize message is read and not passed on
ForwardResize_Ignored(sh, size) == sh

\* the Resize arm: shell.resize(cols, rows)
ForwardResize(sh, size) == ShellResize(sh, size)

\* the Stdin arm: shell.write(payload)
ForwardStdin(sh, payload) == ShellWrite(sh, payload)

\* mutant: a message that is neither Stdin nor Resize is skipped
OnUnexpectedMessage_Skips ==
    /\ Continue
    /\ UNCHANGED <<out, shell>>

\* the Some(Ok(message)) arm of the loop: a message that is neither Stdin nor Resize
OnUnexpectedMessage ==
    /\ Return("Err", "received unexpected message from shell client")
    /\ UNCHANGED <<out, shell>>

\* mutant: the exit code is not read from the provider
ExitedMessage_Zero(sh) == Exited(0)

\* the message the Ok(0) arm writes
ExitedMessage(sh) == Exited(sh.code)

\* mutant: the whole buffer is sent, not the bytes read
StdoutMessage_WholeBuffer(sh, n) == Stdout(sh.consumed, BuffSize)

\* the message the Ok(read) arm writes for a read of n bytes
StdoutMessage(sh, n) == Stdout(sh.consumed, n)

\* mutant: the end of the stream is an error, as it is in wait_for_key
OnStreamEnd_Fails ==
    /\ Return("Err", "client shell stream ended")
    /\ UNCHANGED <<out, shell>>

\* what the None arm of stream.next() does
OnStreamEnd ==
    /\ Break
    /\ UNCHANGED <<out, shell>>

\* shell.read resolves with Ok(read), read > 0
ShellReadBytes ==
    /\ pc = "steam_shell_io"
    /\ ShellAvail(shell) > 0
    /\ LET n == Min(ShellAvail(shell), BuffSize) IN
        /\ shell' = [shell EXCEPT !.consumed = @ + n]
        /\ \E ok \in BOOLEAN :
            /\ StreamWrite(StdoutMessage(shell, n), ok)
            /\ IF ok THEN Continue ELSE Fail("stream write failed")
    /\ UNCHANGED <<key, platform, script, pos, eof, received, built, run_no, prev>>

\* mutant: the Ok(0) arm does not leave the loop
ShellReadZero_NoBreak ==
    /\ pc = "steam_shell_io"
    /\ ShellAvail(shell) = 0
    /\ shell.exited
    /\ shell' = [shell EXCEPT !.drained = TRUE]
    /\ \E ok \in BOOLEAN :
        /\ StreamWrite(Exited(shell.code), ok)
        /\ IF ok THEN Continue ELSE Return("Err", "stream write failed")
    /\ UNCHANGED <<key, platform, script, pos, eof, received, built, run_no, prev>>

\* shell.read resolves with Ok(0): the shell has exited and its output is read
ShellReadZero ==
    /\ pc = "steam_shell_io"
    /\ ShellAvail(shell) = 0
    /\ shell.exited
    /\ shell' = [shell EXCEPT !.drained = TRUE]
    /\ \E ok \in BOOLEAN :
        /\ StreamWrite(ExitedMessage(shell), ok)
        /\ IF ok THEN Break ELSE Fail("stream write failed")
    /\ UNCHANGED <<key, platform, script, pos, eof, received, built, run_no, prev>>

\* shell.read resolves with Err
ShellReadError ==
    /\ pc = "steam_shell_io"
    /\ Fail("shell read failed")
    /\ UNCHANGED <<key, platform, script, pos, eof, received, out, shell, built,
                   run_no, prev>>

\* stream.next() resolves
PeerMessage ==
    /\ pc = "steam_shell_io"
    /\ \E f \in Frames \cup {StreamEnd} :
        /\ StreamNext(f)
        /\ CASE f.type = "Stdin" ->
                  /\ \E ok \in BOOLEAN :
                        IF ok THEN /\ shell' = ForwardStdin(shell, f.payload)
                                   /\ Continue
                              ELSE /\ Fail("shell write failed")
                                   /\ UNCHANGED shell
                  /\ UNCHANGED out
             [] f.type = "Resize" ->
                  /\ \E ok \in BOOLEAN :
                        IF ok THEN /\ shell' = ForwardResize(shell, f.size)
                                   /\ Continue
                              ELSE /\ Fail("shell resize failed")
                                   /\ UNCHANGED shell
                  /\ UNCHANGED out
             [] f.type = "Invalid" ->
                  /\ Return("Err", "received invalid message from shell client")
                  /\ UNCHANGED <<out, shell>>
             [] f.type = "None" ->
                  OnStreamEnd
             [] OTHER ->
                  OnUnexpectedMessage
    /\ UNCHANGED <<key, platform, built, run_no, prev>>

(* the shell process, while steam_shell_io holds the provider *)

\* the shell prints its prompt, or the output of one more command
ShellProduce ==
    /\ pc = "steam_shell_io"
    /\ ~shell.exited
    /\ shell.produced < ShellTotal(shell.input)
    /\ shell' = [shell EXCEPT !.produced = IF @ = 0 THEN PromptLen ELSE @ + EchoOutputLen]
    /\ UNCHANGED <<key, platform, pc, result, cause, elapsed, script, pos, eof,
                   received, out, built, run_no, prev>>

\* the shell has run an exit command and printed all it had to: it exits
ShellExit ==
    /\ pc = "steam_shell_io"
    /\ ~shell.exited
    /\ FirstExit(shell.input) # 0
    /\ shell.produced = ShellTotal(shell.input)
    /\ shell' = [shell EXCEPT !.exited = TRUE,
                              !.code = ExitCodeOf(shell.input[FirstExit(shell.input)].payload)]
    /\ UNCHANGED <<key, platform, pc, result, cause, elapsed, script, pos, eof,
                   received, out, built, run_no, prev>>

(* the linger of run *)

\* mutant: run returns without waiting for the delay
LingerDone_Early ==
    /\ pc = "linger"
    /\ Return("Ok", "")
    /\ UNCHANGED <<key, platform, script, pos, eof, received, out, shell, built,
                   run_no, prev>>

LingerDone ==
    /\ pc = "linger"
    /\ elapsed >= LingerMs
    /\ Return("Ok", "")
    /\ UNCHANGED <<key, platform, script, pos, eof, received, out, shell, built,
                   run_no, prev>>

(* a second run: a fresh ShellServer over the same peer script *)

Restart ==
    /\ pc = "returned"
    /\ run_no = 1
    /\ Len(script) <= MaxRerunScript
    /\ run_no' = 2
    /\ prev' = [result |-> result, out |-> out, kind |-> shell.kind, cause |-> cause]
    /\ pc' = "wait_for_key"
    /\ result' = "none"
    /\ cause' = ""
    /\ elapsed' = 0
    /\ pos' = 0
    /\ received' = <<>>
    /\ out' = <<>>
    /\ shell' = NoShell
    /\ built' = <<>>
    /\ UNCHANGED <<key, platform, script, eof>>

----------------------------------------------------------------------------
(* Specifications *)

Next ==
    \/ Tick
    \/ WaitForKeyMessage
    \/ WriteKeyVerdict
    \/ WaitForKeyTimeout
    \/ StartShellMessage
    \/ StartShellTimeout
    \/ ShellReadBytes
    \/ ShellReadZero
    \/ ShellReadError
    \/ PeerMessage
    \/ ShellProduce
    \/ ShellExit
    \/ LingerDone

Spec == Init /\ [][Next]_vars

\* the runtime fires the timers and polls the task when a branch is ready, and
\* the shell process runs; the peer is under no obligation to send
FairSpec ==
    /\ Spec
    /\ WF_vars(Tick)
    /\ WF_vars(WaitForKeyTimeout)
    /\ WF_vars(WriteKeyVerdict)
    /\ WF_vars(StartShellTimeout)
    /\ WF_vars(LingerDone)
    /\ WF_vars(ShellReadBytes)
    /\ WF_vars(ShellReadZero)
    /\ WF_vars(ShellProduce)
    /\ WF_vars(ShellExit)

\* two runs, one after the other, over the same peer script
NextPair ==
    \/ Next
    \/ Restart

SpecPair == Init /\ [][NextPair]_vars

----------------------------------------------------------------------------
(* Properties *)

Last(q) == q[Len(q)]

\* the places of the Exited messages in a sequence of server messages
ExitedAt(o) == {i \in 1..Len(o) : o[i].type = "Exited"}

\* run has failed because the transport or the provider failed
IoFailed(c) ==
    c \in {"stream write failed", "shell read failed", "shell write failed",
           "shell resize failed"}

\* run has failed on a stage deadline
TimedOut(c) ==
    c \in {"timed out while waiting for key", "timed out while waiting for shell request"}

\* the first frame of the stream was a Key and run has handled it: the write of
\* the verdict has been made
KeyHandled ==
    /\ received # <<>>
    /\ received[1].type = "Key"
    /\ pc # "write_key_verdict"

\* C1 as stated: a first Key(k2) with k2 # key yields KeyRejected and then the
\* failure of run; a first Key(key) yields KeyAccepted and the wait for
\* StartShell.
C1_AsStated ==
    KeyHandled =>
        IF received[1].key # key
        THEN out = <<KeyRejected>> /\ pc = "returned" /\ result = "Err"
        ELSE /\ out # <<>>
             /\ out[1] = KeyAccepted
             /\ Len(received) = 1 => (pc = "start_shell" \/ TimedOut(cause))

\* C1, amended: a first Key(k2) with k2 # key makes run fail, after KeyRejected
\* and nothing else was written; a first Key(key) makes the session write
\* KeyAccepted and wait for StartShell; in both cases, when the write of the
\* verdict fails, run fails with the write's error and nothing has been sent.
C1_KeyVerdict ==
    KeyHandled =>
        \/ /\ received[1].key # key
           /\ out = <<KeyRejected>>
           /\ pc = "returned" /\ result = "Err" /\ cause = "client key rejected"
        \/ /\ received[1].key = key
           /\ out # <<>> /\ out[1] = KeyAccepted
           /\ Len(received) = 1 => (pc = "start_shell" \/ TimedOut(cause))
        \/ /\ out = <<>>
           /\ Len(received) = 1
           /\ pc = "returned" /\ result = "Err" /\ cause = "stream write failed"

C1_Witness ==
    /\ KeyHandled
    /\ received[1].key # key
    /\ out = <<KeyRejected>>
    /\ result = "Err"

\* the script of C2 and what run has read of it: Key(key), StartShell, then
\* Stdin and Resize messages only, an exit command among them, then at most the
\* end of the stream
IsStdinOrResize(f) == f.type \in {"Stdin", "Resize"}

ExitScript ==
    /\ Len(script) >= 3
    /\ script[1] = KeyMsg(key)
    /\ script[2].type = "StartShell"
    /\ \A i \in 3..Len(script) : IsStdinOrResize(script[i])
    /\ \E i \in 3..Len(script) : script[i].type = "Stdin" /\ script[i].payload \in ExitCmds

\* the exit code of the shell that ran the script: that of its first exit command
ScriptExitCode ==
    LET S == {i \in 3..Len(script) :
                 script[i].type = "Stdin" /\ script[i].payload \in ExitCmds}
    IN ExitCodeOf(script[CHOOSE i \in S : \A j \in S : i <= j].payload)

\* C2 as stated: over such a script, run returns Ok with exactly one Exited,
\* carrying the exit code of the shell.
C2_AsStated ==
    (ExitScript /\ pc = "returned" /\ ~IoFailed(cause)) =>
        /\ result = "Ok"
        /\ Cardinality(ExitedAt(out)) = 1
        /\ \A i \in ExitedAt(out) : out[i] = Exited(ScriptExitCode)

\* C2, amended: over such a script run returns Ok unless the transport or the
\* provider fails, and the session emits at most one Exited, carrying the exit
\* code of the shell; it emits it exactly when the read of the provider's end of
\* output won the race against the read of the stream's end, and emits none
\* when the stream's end was read first.
C2_ExitedAtMostOnce ==
    (ExitScript /\ pc = "returned") =>
        /\ ~IoFailed(cause) => result = "Ok"
        /\ Cardinality(ExitedAt(out)) <= 1
        /\ \A i \in ExitedAt(out) : out[i] = Exited(ScriptExitCode) /\ i = Len(out)
        /\ result = "Ok" => (ExitedAt(out) # {} <=> Last(received) # StreamEnd)
        /\ result = "Ok" /\ ExitedAt(out) # {} => shell.drained

C2_Witness ==
    /\ ExitScript
    /\ pc = "returned"
    /\ result = "Ok"
    /\ Last(out) = Exited(3)
    /\ \E i \in 1..Len(out) : out[i].type = "Stdout"
    /\ \E i \in 3..Len(script) : script[i].type = "Resize"

\* the script of C3: Key(key), StartShell, Error
ErrorScript ==
    /\ Len(received) >= 3
    /\ received[1] = KeyMsg(key)
    /\ received[2].type = "StartShell"
    /\ received[3].type = "Error"

\* C3: once run has read Key(key), StartShell and Error, it has returned Err and
\* no Exited has been emitted.
C3_ErrorIsFatal ==
    ErrorScript =>
        /\ pc = "returned"
        /\ result = "Err"
        /\ ExitedAt(out) = {}
        /\ Len(received) = 3

C3_Witness ==
    /\ ErrorScript
    /\ result = "Err"
    /\ cause = "received unexpected message from shell client"
    /\ out = <<KeyAccepted, Stdout(0, PromptLen)>>

C6_OutputShape ==
    \/ out = <<>>
    \/ out = <<KeyRejected>>
    \/ /\ out[1] = KeyAccepted
       /\ \A i \in 2..Len(out) :
            \/ out[i].type = "Stdout"
            \/ out[i].type = "Exited" /\ i = Len(out)

C6_Witness ==
    /\ Len(out) >= 4
    /\ out[1] = KeyAccepted
    /\ out[2].type = "Stdout"
    /\ Last(out).type = "Exited"

\* a provider has been constructed and run has returned
FinishedWithShell == pc = "returned" /\ shell.kind # "none"

\* C7 as stated: a session that constructed a provider and has finished has read
\* the provider to its end of output.
C7_AsStated == FinishedWithShell => shell.drained

\* C7, amended: a session that constructed a provider and finishes with success
\* has read the provider to its end of output (the shell has exited and all its
\* output is read) unless the peer stream ended first; a session that finishes
\* because the peer stream ended has not read the provider to its end.
C7_DrainedUnlessStreamEnded ==
    FinishedWithShell =>
        /\ (result = "Ok" /\ Last(received) # StreamEnd) =>
              (shell.drained /\ Last(out).type = "Exited")
        /\ shell.drained => (shell.exited /\ ShellAvail(shell) = 0)
        /\ Last(received) = StreamEnd => ~shell.drained

C7_Witness ==
    /\ FinishedWithShell
    /\ result = "Ok"
    /\ shell.drained
    /\ shell.consumed > BuffSize

\* the stream has ended while steam_shell_io was relaying
StreamEndedInShell ==
    /\ shell.kind # "none"
    /\ received # <<>>
    /\ Last(received) = StreamEnd

\* C8: when the peer stream ends during the relay, the provider not having been
\* read to its end, the loop is left without error and without Exited, run
\* lingers 500 ms, and then returns Ok.
C8_StreamEndIsSuccess ==
    /\ [](StreamEndedInShell =>
            /\ pc \in {"linger", "returned"}
            /\ ~shell.drained
            /\ ExitedAt(out) = {}
            /\ pc = "linger" => (result = "none" /\ cause = "")
            /\ pc = "returned" => (result = "Ok" /\ cause = "" /\ elapsed = LingerMs))
    /\ StreamEndedInShell ~> (pc = "returned" /\ result = "Ok")

C8_Witness ==
    /\ StreamEndedInShell
    /\ pc = "returned"
    /\ result = "Ok"
    /\ FirstExit(shell.input) # 0
    /\ ~shell.exited

\* this step of start_shell reads a StartShell message
ReadsStartShell ==
    /\ pc = "start_shell"
    /\ Len(received') = Len(received) + 1
    /\ Last(received').type = "StartShell"

\* C9: the step that reads StartShell takes run to the relay with exactly one
\* provider, built from the term and size of the request; where the pty is not
\* compiled in or fails to construct, that provider is the fallback; the step
\* neither fails run nor sends anything.
C9_FallbackNotFailure ==
    [][ReadsStartShell =>
          /\ pc' = "steam_shell_io"
          /\ result' = "none" /\ cause' = ""
          /\ out' = out
          /\ Cardinality({i \in 1..Len(built') : built'[i].ok}) = 1
          /\ Last(built').ok
          /\ shell'.kind = Last(built').kind
          /\ shell'.kind \in {"pty", "fallback"}
          /\ shell'.term = Last(received').term
          /\ shell'.size = Last(received').size
          /\ \A i \in 1..Len(built') :
                /\ built'[i].term = Last(received').term
                /\ built'[i].size = Last(received').size
          /\ (~PtyCompiled \/ Len(built') = 2) => shell'.kind = "fallback"
          /\ Len(built') = 2 => (built'[1].kind = "pty" /\ ~built'[1].ok)
       ]_vars

C9_Witness ==
    /\ pc = "steam_shell_io"
    /\ Len(built) = 2
    /\ ~built[1].ok
    /\ shell.kind = "fallback"
    /\ shell.size = <<50, 50>>

\* both runs over the script are over, by return and not by a timeout or a
\* failure of the transport or of the provider, with the same kind of provider
BothRunsOver ==
    /\ run_no = 2
    /\ pc = "returned"
    /\ ~IoFailed(cause) /\ ~IoFailed(prev.cause)
    /\ ~TimedOut(cause) /\ ~TimedOut(prev.cause)
    /\ shell.kind = prev.kind

\* the Stdout messages of o carry consecutive slices of the provider's output,
\* from its first byte on, none of them empty or longer than the read buffer
StdoutInOrder(o) ==
    \A i \in 1..Len(o) :
        o[i].type = "Stdout" =>
            /\ o[i].len \in 1..BuffSize
            /\ IF i > 1 /\ o[i - 1].type = "Stdout"
               THEN o[i].off = o[i - 1].off + o[i - 1].len
               ELSE o[i].off = 0

\* C10 as stated: the two runs emit the same sequence of server messages.
C10_AsStated == BothRunsOver => out = prev.out

\* C10, amended: the two runs emit the same key verdict; the Stdout payloads of
\* each are consecutive slices of the same provider output, so that one run's
\* output bytes are a prefix of the other's; an Exited, where both emit one,
\* carries the same code.  Where the chunks are cut, how many there are and
\* whether Exited is emitted depend on the order in which the events are ready.
C10_SameUpToRaces ==
    BothRunsOver =>
        /\ (out # <<>> /\ prev.out # <<>>) => out[1] = prev.out[1]
        /\ (out = <<>>) <=> (prev.out = <<>>)
        /\ StdoutInOrder(out) /\ StdoutInOrder(prev.out)
        /\ \A i \in ExitedAt(out) : \A j \in ExitedAt(prev.out) : out[i] = prev.out[j]
        /\ result = "Err" /\ prev.result = "Err" => cause = prev.cause

C10_Witness ==
    /\ BothRunsOver
    /\ result = "Ok" /\ prev.result = "Ok"
    /\ Len(out) >= 3 /\ Len(prev.out) >= 3
    /\ out # prev.out
    /\ ExitedAt(out) # {} /\ ExitedAt(prev.out) # {}

\* the session is Authenticating: from the start of run to the written verdict
Authenticating == pc \in {"wait_for_key", "write_key_verdict"}

\* C11 as stated: Authenticating and Negotiating are each left within 3000 ms
\* of being entered.
C11_AsStated ==
    /\ Authenticating => elapsed <= AuthTimeoutMs
    /\ pc = "start_shell" => elapsed <= ShellTimeoutMs

\* C11, amended: in each of the two stages the wait for the inbound message ends
\* within 3000 ms of the stage being entered, the countdown of Negotiating
\* starting anew when the stage is entered; the write of the key verdict is
\* made after the wait and no deadline cancels it.
C11_WaitsBounded ==
    /\ [](pc = "wait_for_key" => elapsed <= AuthTimeoutMs)
    /\ [](pc = "start_shell" => elapsed <= ShellTimeoutMs)
    /\ [][(pc # "start_shell" /\ pc' = "start_shell") => elapsed' = 0]_vars
    /\ [][(pc = "write_key_verdict" /\ pc' = "returned") =>
             cause' \in {"client key rejected", "stream write failed"}]_vars
    /\ (pc = "wait_for_key") ~> (pc # "wait_for_key")
    /\ (pc = "start_shell") ~> (pc # "start_shell")

C11_Witness ==
    /\ pc = "write_key_verdict"
    /\ elapsed = AuthTimeoutMs + TickMs

\* this step reads something from the stream, and what it reads
ReadsFrame == Len(received') = Len(received) + 1
FrameRead == Last(received')

\* the frame is a message the state does not accept, or does not decode
Unacceptable(state, f) ==
    /\ f \in Frames
    /\ \/ state = "wait_for_key" /\ f.type # "Key"
       \/ state = "start_shell" /\ f.type # "StartShell"
       \/ state = "steam_shell_io" /\ f.type \notin {"Stdin", "Resize"}

\* C12: a step that reads a message its state does not accept, or a frame that
\* does not decode, makes run return Err; nothing is sent, no provider is built,
\* written or resized, and no later state is entered.
C12_UnacceptableIsFatal ==
    [][(ReadsFrame /\ Unacceptable(pc, FrameRead)) =>
          /\ pc' = "returned"
          /\ result' = "Err"
          /\ cause' \in {"received unexpected message from client",
                         "received invalid message from client",
                         "received unexpected message from shell client",
                         "received invalid message from shell client"}
          /\ (FrameRead.type = "Invalid") <=>
                (cause' \in {"received invalid message from client",
                             "received invalid message from shell client"})
          /\ out' = out
          /\ shell' = shell
          /\ built' = built
       ]_vars

C12_Witness ==
    /\ pc = "returned"
    /\ result = "Err"
    /\ Len(received) >= 4
    /\ Last(received).type \in {"Key", "StartShell"}
    /\ cause = "received unexpected message from shell client"
    /\ Len(out) >= 2

\* the state of the session state machine
StateOf(p, r) ==
    CASE p \in {"wait_for_key", "write_key_verdict"} -> "Authenticating"
      [] p = "start_shell" -> "Negotiating"
      [] p = "steam_shell_io" -> "Streaming"
      [] p = "linger" -> "Draining"
      [] p = "returned" /\ r = "Ok" -> "Draining"
      [] OTHER -> "Failed"

\* the transitions of the state machine
Transitions ==
    {<<"Authenticating", "Negotiating">>, <<"Negotiating", "Streaming">>,
     <<"Streaming", "Draining">>, <<"Authenticating", "Failed">>,
     <<"Negotiating", "Failed">>, <<"Streaming", "Failed">>}

\* C13: every step keeps the state or takes one of the transitions
\* Authenticating -> Negotiating -> Streaming -> Draining, or one from the first
\* three to Failed; run returns Ok from Draining only.
C13_StateOrder ==
    [][/\ \/ StateOf(pc, result) = StateOf(pc', result')
          \/ <<StateOf(pc, result), StateOf(pc', result')>> \in Transitions
       /\ (pc # "returned" /\ pc' = "returned" /\ result' = "Ok") => pc = "linger"
       /\ pc = "returned" => pc' = "returned"
      ]_vars

C13_Witness ==
    /\ StateOf(pc, result) = "Draining"
    /\ pc = "returned"
    /\ Len(received) = MaxScript

\* C14: run returns Ok only from the linger, when its 500 ms are over; during
\* the linger nothing is read from the stream and nothing is sent; run returns
\* Err only from a state other than the linger, which leads to Ok alone.
C14_OkIffLingered ==
    [][/\ (result # "Ok" /\ result' = "Ok") =>
             (pc = "linger" /\ elapsed = LingerMs /\ pc' = "returned")
       /\ pc = "linger" =>
             /\ received' = received
             /\ out' = out
             /\ pos' = pos
             /\ pc' = "linger" \/ (pc' = "returned" /\ result' = "Ok")
       /\ (result # "Err" /\ result' = "Err") => (pc # "linger" /\ pc' = "returned")
       /\ pc' = "linger" /\ pc # "linger" => (pc = "steam_shell_io" /\ elapsed' = 0)
      ]_vars

C14_Witness ==
    /\ pc = "returned"
    /\ result = "Ok"
    /\ elapsed = LingerMs
    /\ out # <<>>
    /\ Last(out).type = "Stdout"

\* the call a Stdin or Resize message is passed on as
OpOf(f) == IF f.type = "Stdin" THEN WriteOp(f.payload) ELSE ResizeOp(f.size)

\* the calls the messages read after StartShell ask for, in the order read
OpsRead ==
    LET rest == SelectSeq(SubSeq(received, 3, Len(received)), IsStdinOrResize)
    IN [i \in 1..Len(rest) |-> OpOf(rest[i])]

IsPrefix(a, b) == Len(a) <= Len(b) /\ a = SubSeq(b, 1, Len(a))

\* C15: while relaying, the write and resize calls made on the provider are,
\* in order and payload, the Stdin and Resize messages read so far; once the
\* loop is left the calls are a prefix of them, short by at most the one call
\* that failed.
C15_InputInOrder ==
    /\ pc = "steam_shell_io" =>
          /\ \A i \in 3..Len(received) : IsStdinOrResize(received[i])
          /\ shell.input = OpsRead
    /\ pc \in {"linger", "returned"} /\ shell.kind # "none" =>
          /\ IsPrefix(shell.input, OpsRead)
          /\ Len(OpsRead) <= Len(shell.input) + 1

C15_Witness ==
    /\ pc = "steam_shell_io"
    /\ Len(shell.input) = 3
    /\ \E i \in 1..3 : shell.input[i].op = "resize"
    /\ \E i \in 1..3 : shell.input[i].op = "write"
    /\ Len(out) >= 3
    /\ ShellAvail(shell) > 0

\* the bytes of provider output the Stdout messages of o carry
StdoutBytes(o) ==
    LET S == {i \in 1..Len(o) : o[i].type = "Stdout"}
    IN IF S = {} THEN 0
       ELSE LET m == CHOOSE i \in S : \A j \in S : j <= i
            IN o[m].off + o[m].len

\* C16: while relaying, the Stdout messages carry 1 to 1024 bytes each, each
\* the slice of provider output that follows the one before, and together all
\* the bytes read from the provider so far.
C16_StdoutIsWhatWasRead ==
    pc = "steam_shell_io" =>
        /\ StdoutInOrder(out)
        /\ StdoutBytes(out) = shell.consumed
        /\ shell.consumed <= shell.produced

C16_Witness ==
    /\ pc = "steam_shell_io"
    /\ \E i \in 1..Len(out) : out[i].type = "Stdout" /\ out[i].len = BuffSize
    /\ Last(out).type = "Stdout"
    /\ Last(out).len < BuffSize
    /\ Len(received) = MaxScript

\* C17: while relaying, the step on which a provider read, write or resize or
\* a stream write fails ends run with Err: nothing is sent on it, the call is
\* not made again, and the linger is not entered.
C17_IoFailureIsFatal ==
    [][(pc = "steam_shell_io" /\ IoFailed(cause') /\ ~IoFailed(cause)) =>
          /\ pc' = "returned"
          /\ result' = "Err"
          /\ out' = out
          /\ shell'.input = shell.input
          /\ elapsed' = elapsed
       ]_vars

C17_Witness ==
    /\ pc = "returned"
    /\ result = "Err"
    /\ cause = "shell resize failed"
    /\ shell.exited
    /\ ShellAvail(shell) > 0
    /\ ExitedAt(out) = {}

\* C18: run has returned exactly when it has one of the results Ok and Err;
\* every stage but the relay ends by itself, the linger with Ok; the relay ends
\* once the shell has exited; and a run that never returns relays for ever
\* with a shell that never exits and a stream that never ends.
C18_Terminates ==
    /\ [](pc = "returned" <=> result \in {"Ok", "Err"})
    /\ (pc # "steam_shell_io") ~> (pc \in {"steam_shell_io", "returned"})
    /\ (pc = "linger") ~> (pc = "returned" /\ result = "Ok")
    /\ (pc = "steam_shell_io" /\ shell.exited) ~> (pc = "returned")
    /\ \/ <>(pc = "returned")
       \/ <>[](pc = "steam_shell_io" /\ ~shell.exited /\ ~eof)

C18_Witness ==
    /\ pc = "returned"
    /\ result = "Ok"
    /\ shell.exited
    /\ shell.drained
    /\ shell.consumed > BuffSize

ProviderTouched == shell # NoShell \/ built # <<>>

\* C20: a provider exists only after Key(key) was read first, KeyAccepted was
\* sent and StartShell was read second; when the key is rejected, the wait for
\* it times out or the write of the verdict fails, no provider exists and
\* nothing but the first message was read.
C20_NoProviderUnlessAuthorised ==
    /\ ProviderTouched =>
          /\ Len(received) >= 2
          /\ received[1] = KeyMsg(key)
          /\ out # <<>> /\ out[1] = KeyAccepted
          /\ received[2].type = "StartShell"
    /\ (\/ cause \in {"client key rejected", "timed out while waiting for key"}
        \/ cause = "stream write failed" /\ Len(received) = 1) =>
          /\ ~ProviderTouched
          /\ Len(received) <= 1
          /\ \A i \in 1..Len(received) : ~IsStdinOrResize(received[i])
          /\ pc = "returned" /\ result = "Err"

C20_Witness ==
    /\ pc = "returned"
    /\ cause = "stream write failed"
    /\ received = <<KeyMsg(key)>>
    /\ out = <<>>
    /\ ~ProviderTouched

====
